---- MODULE Spec2Model ----
(***************************************************************************)
(* CipherNote: password-derived key, probe-based password verification,    *)
(* the "iv:ciphertext" cipher of utils/crypto and the note repository of   *)
(* utils/noteStorage, driven by the Login, Home and NoteEditor screens.    *)
(*                                                                         *)
(* Strings are sequences of UTF-16 code units, WordArrays are sequences of *)
(* bytes (sigBytes = Len).  The library primitives are modelled by what    *)
(* they compute: Hex, Base64, Utf8, Pkcs7 and CBC are the real             *)
(* conversions; PBKDF2 and the AES block permutation are stand-ins that    *)
(* keep the properties the real ones have up to negligible probability:    *)
(* distinct (password, salt) pairs derive distinct keys, and under a       *)
(* different key a block never decrypts to what was encrypted.             *)
(***************************************************************************)
EXTENDS Integers, Sequences, FiniteSets, TLC

\* ------------------------------------------------------------------ bounds
NSalt == 2        \* how many distinct values the salt generator can return
NPw == 2          \* how many distinct non-empty passwords the user may type
MaxTime == 2      \* Date.now() runs over 1..MaxTime
MaxGestures == 8  \* how many times the user acts (taps, types, restarts the app)
MaxNotes == 3     \* ids and timestamps of the notes given to the repository on its own
MaxRepoOps == 4   \* how many operations the repository on its own is given

\* ------------------------------------------------- constants of the source
SALT_SIZE == 128 \div 8
IV_SIZE == 128 \div 8
BlockBytes == 128 \div 8
ByteMod == 2 ^ 8

\* "CipherNoteTest"
TEST_PLAIN_TEXT == <<67, 105, 112, 104, 101, 114, 78, 111, 116, 101, 84, 101, 115, 116>>

\* A result that is not a string: null, or the call threw.
Null == <<-1>>
Thrown == <<-2>>
IsStr(r) == r # Null /\ r # Thrown

\* ---------------------------------------------------------- bytes and bits
RECURSIVE XorBits(_, _, _)
XorBits(a, b, n) ==
  IF n = 0 THEN 0
  ELSE ((a + b) % 2) + 2 * XorBits(a \div 2, b \div 2, n - 1)

XorByte(a, b) == XorBits(a, b, 8)

\* seq[from..to], empty when the range is
Slice(s, from, to) == [i \in 1..(to - from + 1) |-> s[from + i - 1]]

RECURSIVE Flatten(_)
Flatten(ss) == IF ss = <<>> THEN <<>> ELSE Head(ss) \o Flatten(Tail(ss))

\* A 32-bit word as its four bytes, most significant first.
WordBytes(w) ==
  << (w \div 2 ^ 24) % ByteMod, (w \div 2 ^ 16) % ByteMod,
     (w \div 2 ^ 8) % ByteMod, w % ByteMod >>

\* A WordArray of the same size that ignores the words given.
WordArrayCreateZeros(words) == [i \in 1..(4 * Len(words)) |-> 0]

\* WordArray.create(words): sigBytes = 4 * words.length
WordArrayCreate(words) ==
  [i \in 1..(4 * Len(words)) |-> WordBytes(words[((i - 1) \div 4) + 1])[((i - 1) % 4) + 1]]

\* ------------------------------------------------------------------- Hex
HexDigit(n) == IF n < 10 THEN 48 + n ELSE 97 + (n - 10)

\* -1 stands for "not a hex digit"
HexVal(c) ==
  IF c >= 48 /\ c <= 57 THEN c - 48
  ELSE IF c >= 97 /\ c <= 102 THEN c - 97 + 10
  ELSE IF c >= 65 /\ c <= 70 THEN c - 65 + 10
  ELSE -1

HexStringify(bytes) ==
  [i \in 1..(2 * Len(bytes)) |->
     IF i % 2 = 1 THEN HexDigit(bytes[(i + 1) \div 2] \div 16)
     ELSE HexDigit(bytes[i \div 2] % 16)]

\* parseInt(two characters, 16); NaN shifts in as 0
ParseHexPair(c1, c2) ==
  IF HexVal(c1) < 0 THEN 0
  ELSE IF HexVal(c2) < 0 THEN HexVal(c1)
  ELSE 16 * HexVal(c1) + HexVal(c2)

HexParse(str) ==
  [i \in 1..((Len(str) + 1) \div 2) |->
     IF 2 * i <= Len(str) THEN ParseHexPair(str[2 * i - 1], str[2 * i])
     ELSE ParseHexPair(str[2 * i - 1], -1)]

\* ---------------------------------------------------------------- Base64
B64Char(s) ==
  IF s < 26 THEN 65 + s
  ELSE IF s < 52 THEN 97 + (s - 26)
  ELSE IF s < 62 THEN 48 + (s - 52)
  ELSE IF s = 62 THEN 43 ELSE 47

\* the reverse map; an unknown character shifts in as 0
B64Val(c) ==
  IF c >= 65 /\ c <= 90 THEN c - 65
  ELSE IF c >= 97 /\ c <= 122 THEN c - 97 + 26
  ELSE IF c >= 48 /\ c <= 57 THEN c - 48 + 52
  ELSE IF c = 43 THEN 62
  ELSE IF c = 47 THEN 63
  ELSE 0

ByteAt(bytes, i) == IF i <= Len(bytes) THEN bytes[i] ELSE 0

\* the characters of the triplet that starts at byte i (1-based)
B64Group(bytes, i) ==
  LET t == ByteAt(bytes, i) * 2 ^ 16 + ByteAt(bytes, i + 1) * 2 ^ 8 + ByteAt(bytes, i + 2)
      n == IF i + 2 <= Len(bytes) THEN 4 ELSE IF i + 1 <= Len(bytes) THEN 3 ELSE 2
      all == << B64Char((t \div 2 ^ 18) % 64), B64Char((t \div 2 ^ 12) % 64),
                B64Char((t \div 2 ^ 6) % 64), B64Char(t % 64) >>
  IN  [j \in 1..4 |-> IF j <= n THEN all[j] ELSE 61]

Base64Stringify(bytes) ==
  [i \in 1..(4 * ((Len(bytes) + 2) \div 3)) |->
     B64Group(bytes, 3 * ((i - 1) \div 4) + 1)[((i - 1) % 4) + 1]]

\* the characters before the first c (all of them when there is none)
UpTo(str, c) ==
  IF \E i \in 1..Len(str) : str[i] = c
  THEN LET first == CHOOSE i \in 1..Len(str) :
                      str[i] = c /\ \A j \in 1..(i - 1) : str[j] # c
       IN  Slice(str, 1, first - 1)
  ELSE str

\* parseLoop: one byte for every character position i (0-based) with
\* i % 4 # 0; the k-th such position is k + (k - 1) \div 3.
B64ParseLoop(str) ==
  LET n == Len(str)
      count == IF n = 0 THEN 0 ELSE (n - 1) - ((n - 1) \div 4)
  IN  [k \in 1..count |->
         LET i == k + ((k - 1) \div 3)
             m == i % 4
         IN  (B64Val(str[i]) * 2 ^ (2 * m) + (B64Val(str[i + 1]) \div 2 ^ (6 - 2 * m))) % ByteMod]

\* paddingIndex = indexOf('='): parsing stops there
Base64Parse(str) == B64ParseLoop(UpTo(str, 61))

\* ------------------------------------------------------------------ Utf8
IsHighSurrogate(c) == c >= 55296 /\ c <= 56319
IsLowSurrogate(c) == c >= 56320 /\ c <= 57343

\* encodeURIComponent accepts the string: no unpaired surrogate
RECURSIVE WellFormed(_)
WellFormed(str) ==
  IF str = <<>> THEN TRUE
  ELSE IF IsHighSurrogate(Head(str))
       THEN Len(str) >= 2 /\ IsLowSurrogate(str[2]) /\ WellFormed(Tail(Tail(str)))
  ELSE IF IsLowSurrogate(Head(str)) THEN FALSE
  ELSE WellFormed(Tail(str))

Utf8CodePoint(cp) ==
  IF cp < 128 THEN <<cp>>
  ELSE IF cp < 2048 THEN << 192 + (cp \div 64), 128 + (cp % 64) >>
  ELSE IF cp < 65536 THEN << 224 + (cp \div 4096), 128 + ((cp \div 64) % 64), 128 + (cp % 64) >>
  ELSE << 240 + (cp \div 262144), 128 + ((cp \div 4096) % 64),
          128 + ((cp \div 64) % 64), 128 + (cp % 64) >>

RECURSIVE Utf8Encode(_)
Utf8Encode(str) ==
  IF str = <<>> THEN <<>>
  ELSE IF IsHighSurrogate(Head(str))
       THEN Utf8CodePoint(65536 + (Head(str) - 55296) * 1024 + (str[2] - 56320))
              \o Utf8Encode(Tail(Tail(str)))
  ELSE Utf8CodePoint(Head(str)) \o Utf8Encode(Tail(str))

\* CryptoJS.enc.Utf8.parse: the bytes, or Thrown (URIError)
Utf8Parse(str) == IF WellFormed(str) THEN Utf8Encode(str) ELSE Thrown

IsCont(bytes, i) == i <= Len(bytes) /\ bytes[i] >= 128 /\ bytes[i] <= 191

\* the code units of a code point
CodeUnits(cp) ==
  IF cp < 65536 THEN <<cp>>
  ELSE << 55296 + ((cp - 65536) \div 1024), 56320 + ((cp - 65536) % 1024) >>

Then(units, rest) == IF rest = Thrown THEN Thrown ELSE units \o rest

\* decodeURIComponent over the escaped bytes, from byte i on
RECURSIVE Utf8Decode(_, _)
Utf8Decode(bytes, i) ==
  IF i > Len(bytes) THEN <<>>
  ELSE LET b == bytes[i] IN
    IF b < 128 THEN Then(<<b>>, Utf8Decode(bytes, i + 1))
    ELSE IF b >= 194 /\ b <= 223 /\ IsCont(bytes, i + 1)
      THEN Then(<<(b - 192) * 64 + (bytes[i + 1] - 128)>>, Utf8Decode(bytes, i + 2))
    ELSE IF b >= 224 /\ b <= 239 /\ IsCont(bytes, i + 1) /\ IsCont(bytes, i + 2)
      THEN LET cp == (b - 224) * 4096 + (bytes[i + 1] - 128) * 64 + (bytes[i + 2] - 128)
           IN  IF cp < 2048 \/ (cp >= 55296 /\ cp <= 57343) THEN Thrown
               ELSE Then(<<cp>>, Utf8Decode(bytes, i + 3))
    ELSE IF b >= 240 /\ b <= 244 /\ IsCont(bytes, i + 1) /\ IsCont(bytes, i + 2)
            /\ IsCont(bytes, i + 3)
      THEN LET cp == (b - 240) * 262144 + (bytes[i + 1] - 128) * 4096
                       + (bytes[i + 2] - 128) * 64 + (bytes[i + 3] - 128)
           IN  IF cp < 65536 \/ cp > 1114111 THEN Thrown
               ELSE Then(CodeUnits(cp), Utf8Decode(bytes, i + 4))
    ELSE Thrown

\* CryptoJS.enc.Utf8.stringify: the string, or Thrown ("Malformed UTF-8 data")
Utf8Stringify(bytes) == Utf8Decode(bytes, 1)

\* ------------------------------------------------------- the block cipher
\* Stand-in for the AES block permutation under key `key` (a number in
\* 1..ByteMod-1): a permutation of the blocks that, under a different key,
\* never maps a block back to itself.
BlockEncrypt(key, block) == [i \in 1..BlockBytes |-> (block[i] + key) % ByteMod]
BlockDecrypt(key, block) == [i \in 1..BlockBytes |-> (block[i] + ByteMod - key) % ByteMod]

XorBlock(a, b) == [i \in 1..BlockBytes |-> XorByte(a[i], b[i])]

\* The IV the mode uses: the first blockSize words of iv.words, a missing
\* word xor-ing in as 0.
IvBlock(iv) == [i \in 1..BlockBytes |-> ByteAt(iv, i)]

\* CryptoJS.pad.Pkcs7.pad
Pkcs7Pad(data) ==
  LET n == BlockBytes - (Len(data) % BlockBytes)
  IN  data \o [i \in 1..n |-> n]

BlockOf(data, j) == [i \in 1..BlockBytes |-> ByteAt(data, (j - 1) * BlockBytes + i)]

\* CBC encryption of whole blocks, from block j on, prev the block before
RECURSIVE CbcEncFrom(_, _, _, _)
CbcEncFrom(key, prev, data, j) ==
  IF j > Len(data) \div BlockBytes THEN <<>>
  ELSE LET c == BlockEncrypt(key, XorBlock(BlockOf(data, j), prev))
       IN  c \o CbcEncFrom(key, c, data, j + 1)

CbcEncrypt(key, iv, data) == CbcEncFrom(key, IvBlock(iv), data, 1)

\* CBC decryption; a trailing partial block is processed as a block
\* (doFlush rounds the block count up) and the output keeps the input length.
CbcDecBlock(key, iv, ct, j) ==
  LET prev == IF j = 1 THEN IvBlock(iv) ELSE BlockOf(ct, j - 1)
  IN  XorBlock(BlockDecrypt(key, BlockOf(ct, j)), prev)

CbcDecrypt(key, iv, ct) ==
  Flatten([j \in 1..((Len(ct) + BlockBytes - 1) \div BlockBytes) |-> CbcDecBlock(key, iv, ct, j)])

\* CryptoJS.pad.Pkcs7.unpad: the last byte of the last word is the count to
\* drop; nothing checks it.  The result is the new sigBytes (may be <= 0).
\* An unpad that strips nothing.
Pkcs7KeepPadding(data, sig) == sig

Pkcs7UnpadLen(data, sig) ==
  IF sig = 0 THEN 0
  ELSE sig - ByteAt(data, ((sig - 1) \div 4) * 4 + 4)

\* "Salted__": the OpenSSL formatter strips it and the 8 salt bytes after it
SaltedPrefix == <<83, 97, 108, 116, 101, 100, 95, 95>>

OpenSSLParse(str) ==
  LET raw == Base64Parse(str)
  IN  IF Len(raw) >= 8 /\ Slice(raw, 1, 8) = SaltedPrefix
      THEN Slice(raw, 17, Len(raw))
      ELSE raw

\* ------------------------------------------------------------ utils/crypto
\* The absent key (null); a derived key is a number in 1..ByteMod-1.
NoKey == 0
\* In place of a key: the call threw.
KeyThrown == -1

\* The passwords the user may type: the empty one and NPw others.
Passwords == {<<>>} \cup {<<80 + i>> : i \in 1..NPw}

\* What WordArray.random(SALT_SIZE) may return.
SaltValues == {[i \in 1..SALT_SIZE |-> s] : s \in 1..NSalt}

\* What getRandomBytes(IV_SIZE) may return: two of the 2^128 values, which
\* differ in the first byte and in the fifth.
RandomBytes == {[i \in 1..IV_SIZE |-> IF i = j THEN 1 ELSE 0] : j \in {1, 5}}

RECURSIVE SumSeq(_, _)
SumSeq(s, i) == IF i > Len(s) THEN 0 ELSE s[i] + SumSeq(s, i + 1)

\* A derivation that ignores the password.
deriveKeySaltOnly(password, salt) ==
  1 + (((NPw + 2) * (SumSeq(salt, 1) \div SALT_SIZE)) % (ByteMod - 1))

\* Stand-in for PBKDF2: deterministic, and distinct (password, salt) pairs
\* of the model give distinct keys (the salts are NPw + 2 apart, the
\* passwords less than that).
deriveKey(password, salt) ==
  1 + ((SumSeq(password, 1) + (NPw + 2) * (SumSeq(salt, 1) \div SALT_SIZE)) % (ByteMod - 1))

\* rnd is what getRandomBytes returned.  The blob, or Thrown.
encryptData(data, key, rnd) ==
  IF data = <<>> \/ key = NoKey THEN Thrown
  ELSE LET iv == WordArrayCreate(rnd)
           pt == Utf8Parse(data)
       IN  IF pt = Thrown THEN Thrown
           ELSE HexStringify(iv) \o <<58>> \o Base64Stringify(CbcEncrypt(key, iv, Pkcs7Pad(pt)))

HasChar(str, c) == \E i \in 1..Len(str) : str[i] = c

\* encryptedText.split(':')[0]
SplitFirst(str) == UpTo(str, 58)

\* encryptedText.split(':')[1]; Null stands for undefined
SplitSecond(str) ==
  IF ~HasChar(str, 58) THEN Null
  ELSE UpTo(Slice(str, Len(UpTo(str, 58)) + 2, Len(str)), 58)

\* The plaintext, or Null.
decryptData(encryptedText, key) ==
  IF ~IsStr(encryptedText) \/ encryptedText = <<>> \/ key = NoKey THEN Null
  ELSE LET ivString == SplitFirst(encryptedText)
           ciphertext == SplitSecond(encryptedText)
       IN  IF ivString = <<>> \/ ciphertext = Null \/ ciphertext = <<>> THEN Null
           ELSE LET iv == HexParse(ivString)
                    ct == OpenSSLParse(ciphertext)
                    decrypted == CbcDecrypt(key, iv, ct)
                    sigBytes == Pkcs7UnpadLen(decrypted, Len(ct))
                IN  IF Len(ct) = 0 \/ sigBytes <= 0 THEN Null
                    ELSE LET plaintext == Utf8Stringify(Slice(decrypted, 1, sigBytes))
                         IN  IF plaintext = Thrown \/ plaintext = <<>> THEN Null
                             ELSE plaintext

\* --------------------------------------------------------------- the state
VARIABLES
  secureStore,     \* SecureStore: [salt, test], each Null or the stored string
  notesDir,        \* the notes directory exists
  noteFiles,       \* id -> contents of <id>.encrypted, Null when there is no file
  metadataFile,    \* metadata.json: [exists, entries]
  now,             \* Date.now()
  encryptionKey,   \* CryptoProvider state
  isAuthenticated, \* CryptoProvider state, set by its effect
  screen,          \* the route on top: "Login", "Home" or "NoteEditor"
  login,           \* LoginScreen state: [loading, isFirstLaunch]
  home,            \* HomeScreen state: [notes, pending]
  editor,          \* NoteEditorScreen state: [currentNoteId, content]
  autoSave,        \* the editor's blur cleanup that has not run yet, or NoSave
  lastOp,          \* history: the last utils call and what it returned
  masterPw,        \* history: the password of the last setMasterPassword that returned
  masterKey,       \* history: the key that call returned
  saved,           \* history: per id, the last save or delete that completed
  cipher,          \* inputs and outputs of the cipher on its own
  calls,           \* per slot, the noteStorage call in flight and its position
  gestures         \* how many times the user has acted

vars == << secureStore, notesDir, noteFiles, metadataFile, now, encryptionKey,
           isAuthenticated, screen, login, home, editor, autoSave, lastOp,
           masterPw, masterKey, saved, cipher, calls, gestures >>

persistent == << secureStore, notesDir, noteFiles, metadataFile >>
history == << lastOp, masterPw, masterKey, saved >>

NoteIds == 1..MaxTime
NoId == 0

\* What the user types into the editor.
LongText == [i \in 1..(BlockBytes + 1) |-> IF i = 3 THEN 58 ELSE 97]
Contents == { <<32>>, <<72>>, LongText }

\* content.trim() === '': only white space (tab, line ends, space)
IsBlank(content) == \A i \in 1..Len(content) : content[i] \in {9, 10, 11, 12, 13, 32}

NoSave == [pending |-> FALSE]
NoOp == [op |-> "none"]
NeverSaved == [state |-> "none"]
Deleted == [state |-> "deleted"]
IdleCipher == [phase |-> "idle"]

\* Two calls of noteStorage can be in flight at a time.
Slots == {"a", "b"}
NoCalls == [slot \in Slots |-> [pc |-> "idle"]]

\* ----------------------------------------------------- utils/crypto, state
\* fault names the SecureStore call that rejects, "none" when none does.

\* The salt WordArray, or Null.
getStoredSalt(store, fault) ==
  IF fault = "getSalt" THEN Null
  ELSE IF store.salt # Null /\ store.salt # <<>> THEN Base64Parse(store.salt)
  ELSE Null

hasMasterPassword(store, fault) == getStoredSalt(store, fault) # Null

\* [store, key]: the SecureStore afterwards and the key returned (KeyThrown
\* when the call threw).
setMasterPassword(store, password, salt, rnd, fault) ==
  IF password = <<>> THEN [store |-> store, key |-> KeyThrown]
  ELSE IF fault = "storeSalt" THEN [store |-> store, key |-> KeyThrown]
  ELSE LET withSalt == [store EXCEPT !.salt = Base64Stringify(salt)]
           derivedKey == deriveKey(password, salt)
           encryptedTest == encryptData(TEST_PLAIN_TEXT, derivedKey, rnd)
       IN  IF derivedKey = NoKey THEN [store |-> withSalt, key |-> KeyThrown]
           ELSE IF encryptedTest = Thrown \/ fault = "setTest"
             THEN [store |-> withSalt, key |-> KeyThrown]
           ELSE [store |-> [withSalt EXCEPT !.test = encryptedTest], key |-> derivedKey]

\* A verification that never looks at the probe.
verifyWithoutProbe(store, password, fault) ==
  IF password = <<>> THEN NoKey
  ELSE LET salt == getStoredSalt(store, fault)
       IN  IF salt = Null THEN NoKey ELSE deriveKey(password, salt)

\* A verification that throws when the test data is missing.
verifyThrowOnMissing(store, password, fault) ==
  IF password = <<>> THEN NoKey
  ELSE LET salt == getStoredSalt(store, fault)
       IN  IF salt = Null THEN NoKey
           ELSE IF store.test = Null \/ store.test = <<>> THEN KeyThrown
           ELSE IF decryptData(store.test, deriveKey(password, salt)) = TEST_PLAIN_TEXT
             THEN deriveKey(password, salt)
           ELSE NoKey

\* The key, NoKey for null, KeyThrown when the call threw.
verifyMasterPassword(store, password, fault) ==
  IF password = <<>> THEN NoKey
  ELSE LET salt == getStoredSalt(store, fault)
       IN  IF salt = Null THEN NoKey
           ELSE IF fault = "getTest" THEN KeyThrown
           ELSE IF store.test = Null \/ store.test = <<>> THEN NoKey
           ELSE IF decryptData(store.test, deriveKey(password, salt)) = TEST_PLAIN_TEXT
             THEN deriveKey(password, salt)
           ELSE NoKey

\* A clear that deletes the salt and leaves the test data.
clearSaltOnly(store, fault) == [store |-> [store EXCEPT !.salt = Null], ok |-> TRUE]

\* [store, ok]
clearMasterPassword(store, fault) ==
  IF fault = "deleteSalt" THEN [store |-> store, ok |-> FALSE]
  ELSE IF fault = "deleteTest" THEN [store |-> [store EXCEPT !.salt = Null], ok |-> FALSE]
  ELSE [store |-> [salt |-> Null, test |-> Null], ok |-> TRUE]

\* ------------------------------------------------------- utils/noteStorage
\* The file system as one value: [dir, files, meta].
FileSystem == [dir |-> notesDir, files |-> noteFiles, meta |-> metadataFile]

ensureDirExists(fs) == [fs EXCEPT !.dir = TRUE]

\* metadata.json: absent, or holding JSON.stringify(entries)
NoMetadata == [exists |-> FALSE, entries |-> <<>>]
MetadataOf(entries) == [exists |-> TRUE, entries |-> entries]

\* readAsStringAsync(METADATA_FILE) + JSON.parse, [] when that throws
ReadMetadataOrEmpty(fs, fault) ==
  IF fault = "readMeta" \/ ~fs.meta.exists THEN <<>> ELSE fs.meta.entries

\* push, whether or not the id has an entry
UpsertAppend(metadata, entry) == Append(metadata, entry)

\* findIndex + replace, or push
Upsert(metadata, entry) ==
  IF \E i \in 1..Len(metadata) : metadata[i].id = entry.id
  THEN LET existingIndex == CHOOSE i \in 1..Len(metadata) :
                              metadata[i].id = entry.id
                              /\ \A j \in 1..(i - 1) : metadata[j].id # entry.id
       IN  [metadata EXCEPT ![existingIndex] = entry]
  ELSE Append(metadata, entry)

\* A save that leaves the file of an id that has one as it is.
saveNoteKeepFile(fs, note, key, rnd, fault) ==
  IF key = NoKey THEN [fs |-> fs, ok |-> FALSE]
  ELSE LET withDir == ensureDirExists(fs)
           encryptedContent == encryptData(note.content, key, rnd)
       IN  IF encryptedContent = Thrown THEN [fs |-> withDir, ok |-> FALSE]
           ELSE LET written == IF withDir.files[note.id] # Null THEN withDir
                               ELSE [withDir EXCEPT !.files[note.id] = encryptedContent]
                    newMetadata == [id |-> note.id, timestamp |-> note.timestamp]
                IN  [fs |-> [written EXCEPT !.meta =
                               MetadataOf(Upsert(ReadMetadataOrEmpty(written, fault),
                                                 newMetadata))],
                     ok |-> TRUE]

\* [fs, ok]: the file system afterwards, and whether the call returned
\* A save that writes the content as it is.
saveNotePlain(fs, note, key, rnd, fault) ==
  IF key = NoKey THEN [fs |-> fs, ok |-> FALSE]
  ELSE LET written == [ensureDirExists(fs) EXCEPT !.files[note.id] = note.content]
           newMetadata == [id |-> note.id, timestamp |-> note.timestamp]
       IN  [fs |-> [written EXCEPT !.meta =
                      MetadataOf(Upsert(ReadMetadataOrEmpty(written, fault), newMetadata))],
            ok |-> TRUE]

saveNote(fs, note, key, rnd, fault) ==
  IF key = NoKey THEN [fs |-> fs, ok |-> FALSE]
  ELSE LET withDir == ensureDirExists(fs)
           encryptedContent == encryptData(note.content, key, rnd)
       IN  IF encryptedContent = Thrown \/ fault = "writeFile"
             THEN [fs |-> withDir, ok |-> FALSE]
           ELSE LET written == [withDir EXCEPT !.files[note.id] = encryptedContent]
                    metadata == ReadMetadataOrEmpty(written, fault)
                    newMetadata == [id |-> note.id, timestamp |-> note.timestamp]
                IN  IF fault = "writeMeta" THEN [fs |-> written, ok |-> FALSE]
                    ELSE [fs |-> [written EXCEPT !.meta = MetadataOf(Upsert(metadata, newMetadata))],
                          ok |-> TRUE]

\* The plaintext, Null, or Thrown (no key)
loadNoteContent(fs, id, key) ==
  IF key = NoKey THEN Thrown
  ELSE IF fs.files[id] = Null THEN Null
  ELSE decryptData(fs.files[id], key)

\* Array.prototype.sort with (a, b) => b.timestamp - a.timestamp: stable,
\* most recent first.  Insert x behind every entry that is not older.
InsertDesc(sorted, x) ==
  LET k == Cardinality({i \in 1..Len(sorted) : sorted[i].timestamp >= x.timestamp})
  IN  Slice(sorted, 1, k) \o <<x>> \o Slice(sorted, k + 1, Len(sorted))

RECURSIVE SortDesc(_, _)
SortDesc(sorted, rest) ==
  IF rest = <<>> THEN sorted ELSE SortDesc(InsertDesc(sorted, Head(rest)), Tail(rest))

\* The list: sorted metadata, [] when the file is missing
\* A listing that returns the entries in file order.
getAllNoteMetadataUnsorted(fs, fault) ==
  IF fault = "readMeta" \/ ~fs.meta.exists THEN <<>> ELSE fs.meta.entries

getAllNoteMetadataF(fs, fault) ==
  IF fault = "readMeta" \/ ~fs.meta.exists THEN <<>> ELSE SortDesc(<<>>, fs.meta.entries)

getAllNoteMetadata(fs) == getAllNoteMetadataF(fs, "none")

SelectSeqId(metadata, id) ==
  LET keep == {i \in 1..Len(metadata) : metadata[i].id # id}
      nth(k) == CHOOSE i \in keep : Cardinality({j \in keep : j < i}) = k - 1
  IN  [k \in 1..Cardinality(keep) |-> metadata[nth(k)]]

\* A delete that removes the file and leaves metadata.json as it is.
deleteNoteFileOnly(fs, id, fault) ==
  [fs |-> [ensureDirExists(fs) EXCEPT !.files[id] = Null], ok |-> TRUE]

\* [fs, ok]
\* A delete that fails for an id without a file.
deleteNoteStrict(fs, id, fault) ==
  LET withDir == ensureDirExists(fs)
  IN  IF fs.files[id] = Null THEN [fs |-> withDir, ok |-> FALSE]
      ELSE [fs |-> [withDir EXCEPT !.files[id] = Null,
                                   !.meta = MetadataOf(SelectSeqId(ReadMetadataOrEmpty(withDir, fault), id))],
            ok |-> TRUE]

deleteNote(fs, id, fault) ==
  LET withDir == ensureDirExists(fs)
  IN  IF fault = "deleteFile" /\ fs.files[id] # Null THEN [fs |-> withDir, ok |-> FALSE]
      ELSE LET removed == [withDir EXCEPT !.files[id] = Null]
               metadata == ReadMetadataOrEmpty(removed, fault)
               updatedMetadata == SelectSeqId(metadata, id)
           IN  IF fault = "writeMeta" THEN [fs |-> removed, ok |-> FALSE]
               ELSE [fs |-> [removed EXCEPT !.meta = MetadataOf(updatedMetadata)], ok |-> TRUE]

SetFileSystem(fs) ==
  /\ notesDir' = fs.dir
  /\ noteFiles' = fs.files
  /\ metadataFile' = fs.meta

\* ------------------------------------------------------------- the screens
LoginMounted == [loading |-> TRUE, isFirstLaunch |-> "null"]
LoginIdle == [loading |-> FALSE, isFirstLaunch |-> "null"]
HomeMounted == [notes |-> <<>>, pending |-> TRUE]
HomeIdle == [notes |-> <<>>, pending |-> FALSE]
EditorIdle == [currentNoteId |-> NoId, content |-> <<>>]

\* The provider's effect has run: isAuthenticated mirrors the key.
EffectsSettled == isAuthenticated = (encryptionKey # NoKey)

AppInit ==
  /\ secureStore = [salt |-> Null, test |-> Null]
  /\ notesDir = FALSE
  /\ noteFiles = [id \in NoteIds |-> Null]
  /\ metadataFile = NoMetadata
  /\ now = 1
  /\ encryptionKey = NoKey
  /\ isAuthenticated = FALSE
  /\ screen = "Login"
  /\ login = LoginMounted
  /\ home = HomeIdle
  /\ editor = EditorIdle
  /\ autoSave = NoSave
  /\ lastOp = NoOp
  /\ masterPw = <<>>
  /\ masterKey = NoKey
  /\ saved = [id \in NoteIds |-> NeverSaved]
  /\ gestures = 0

Init == AppInit /\ cipher = IdleCipher /\ calls = NoCalls

\* A step the user takes, and a step the program takes by itself.
Gesture == gestures < MaxGestures /\ gestures' = gestures + 1
NoGesture == gestures' = gestures

\* LoginScreen's mount effect
CheckFirstLaunchF(fault) ==
  /\ NoGesture
  /\ screen = "Login" /\ login.loading /\ login.isFirstLaunch = "null"
  /\ LET has == hasMasterPassword(secureStore, fault)
     IN  /\ login' = [loading |-> FALSE,
                      isFirstLaunch |-> IF has THEN "false" ELSE "true"]
         /\ lastOp' = [op |-> "hasMasterPassword", result |-> has]
  /\ UNCHANGED << persistent, now, encryptionKey, isAuthenticated, screen, home,
                  editor, autoSave, masterPw, masterKey, saved, cipher, calls >>

CheckFirstLaunch == CheckFirstLaunchF("none")

\* setEncryptionKey(key); navigation.replace('Home')
EnterHome(key) ==
  /\ encryptionKey' = key
  /\ screen' = "Home"
  /\ home' = HomeMounted
  /\ login' = LoginIdle

HandleSetMasterPasswordF(password, confirmPassword, salt, rnd, fault) ==
  /\ Gesture
  /\ screen = "Login" /\ ~login.loading /\ login.isFirstLaunch = "true"
  /\ EffectsSettled
  /\ password # <<>> /\ confirmPassword # <<>> /\ password = confirmPassword
  /\ LET r == setMasterPassword(secureStore, password, salt, rnd, fault)
     IN  /\ secureStore' = r.store
         /\ lastOp' = [op |-> "setMasterPassword", password |-> password, key |-> r.key,
                       unset |-> secureStore.salt = Null]
         /\ IF r.key # KeyThrown
              THEN /\ EnterHome(r.key)
                   /\ masterPw' = password
                   /\ masterKey' = r.key
              ELSE UNCHANGED << encryptionKey, screen, home, login, masterPw, masterKey >>
  /\ UNCHANGED << notesDir, noteFiles, metadataFile, now, isAuthenticated, editor,
                  autoSave, saved, cipher, calls >>

HandleSetMasterPassword(password, salt, rnd) ==
  HandleSetMasterPasswordF(password, password, salt, rnd, "none")

HandleLoginF(password, fault) ==
  /\ Gesture
  /\ screen = "Login" /\ ~login.loading /\ login.isFirstLaunch = "false"
  /\ EffectsSettled
  /\ password # <<>>
  /\ LET derivedKey == verifyMasterPassword(secureStore, password, fault)
     IN  /\ lastOp' = [op |-> "verifyMasterPassword", password |-> password,
                       key |-> derivedKey, fresh |-> encryptionKey = NoKey]
         /\ IF derivedKey # NoKey /\ derivedKey # KeyThrown
              THEN EnterHome(derivedKey)
              ELSE UNCHANGED << encryptionKey, screen, home, login >>
  /\ UNCHANGED << persistent, now, isAuthenticated, editor, autoSave, masterPw,
                  masterKey, saved, cipher, calls >>

HandleLogin(password) == HandleLoginF(password, "none")

\* CryptoProvider: useEffect(() => setIsAuthenticated(encryptionKey !== null));
\* loadNotes depends on isAuthenticated, so Home's effect runs it again.
ProviderEffect ==
  /\ NoGesture
  /\ ~EffectsSettled
  /\ isAuthenticated' = (encryptionKey # NoKey)
  /\ home' = IF screen = "Home" THEN [home EXCEPT !.pending = TRUE] ELSE home
  /\ UNCHANGED << persistent, now, encryptionKey, screen, login, editor, autoSave,
                  history, cipher, calls >>

\* HomeScreen.loadNotes
HomeLoadNotes ==
  /\ NoGesture
  /\ screen = "Home" /\ home.pending
  /\ IF ~isAuthenticated
       THEN /\ screen' = "Login"
            /\ login' = LoginMounted
            /\ home' = HomeIdle
            /\ UNCHANGED << notesDir, lastOp >>
       ELSE LET loadedNotes == getAllNoteMetadata(FileSystem)
            IN  /\ notesDir' = TRUE
                /\ home' = [notes |-> loadedNotes, pending |-> FALSE]
                /\ lastOp' = [op |-> "getAllNoteMetadata"]
                /\ UNCHANGED << screen, login >>
  /\ UNCHANGED << secureStore, noteFiles, metadataFile, now, encryptionKey,
                  isAuthenticated, editor, autoSave, masterPw, masterKey, saved, cipher, calls >>

\* The user acts on Home once it is shown to an authenticated user and the
\* editor's cleanup has run.
HomeReady == screen = "Home" /\ EffectsSettled /\ isAuthenticated /\ ~autoSave.pending

\* the list's pull-to-refresh
HomeRefresh ==
  /\ Gesture
  /\ HomeReady /\ home.notes # <<>> /\ ~home.pending
  /\ home' = [home EXCEPT !.pending = TRUE]
  /\ UNCHANGED << persistent, now, encryptionKey, isAuthenticated, screen, login,
                  editor, autoSave, history, cipher, calls >>

HandleCreateNewNote ==
  /\ Gesture
  /\ HomeReady
  /\ screen' = "NoteEditor"
  /\ editor' = EditorIdle
  /\ UNCHANGED << persistent, now, encryptionKey, isAuthenticated, login, home,
                  autoSave, history, cipher, calls >>

\* navigate('NoteEditor', {noteId}) and the editor's fetchOrCreateNote
HandleOpenNote(noteId) ==
  /\ Gesture
  /\ HomeReady
  /\ \E i \in 1..Len(home.notes) : home.notes[i].id = noteId
  /\ LET loadedContent == loadNoteContent(FileSystem, noteId, encryptionKey)
     IN  /\ lastOp' = [op |-> "loadNoteContent", id |-> noteId, key |-> encryptionKey,
                       result |-> loadedContent]
         /\ IF IsStr(loadedContent)
              THEN /\ screen' = "NoteEditor"
                   /\ editor' = [currentNoteId |-> noteId, content |-> loadedContent]
                   /\ home' = home
              ELSE /\ home' = [home EXCEPT !.pending = TRUE]
                   /\ UNCHANGED << screen, editor >>
  /\ UNCHANGED << persistent, now, encryptionKey, isAuthenticated, login, autoSave,
                  masterPw, masterKey, saved, cipher, calls >>

\* onChangeText
EditorType(content) ==
  /\ Gesture
  /\ screen = "NoteEditor"
  /\ content # editor.content
  /\ editor' = [editor EXCEPT !.content = content]
  /\ UNCHANGED << persistent, now, encryptionKey, isAuthenticated, screen, login,
                  home, autoSave, history, cipher, calls >>

\* navigation.goBack(): Home gets the focus, the editor's cleanup is due
LeaveEditor ==
  /\ screen' = "Home"
  /\ home' = [home EXCEPT !.pending = TRUE]
  /\ autoSave' = [pending |-> TRUE, isAuthenticated |-> isAuthenticated,
                  encryptionKey |-> encryptionKey,
                  currentNoteId |-> editor.currentNoteId, content |-> editor.content]
  /\ editor' = EditorIdle

EditorGoBack ==
  /\ Gesture
  /\ screen = "NoteEditor"
  /\ LeaveEditor
  /\ UNCHANGED << persistent, now, encryptionKey, isAuthenticated, login, history,
                  cipher, calls >>

\* a cleanup that is run again after it has saved
RunAutoSaveAgain(rnd) ==
  /\ NoGesture
  /\ autoSave.pending
  /\ autoSave' = autoSave
  /\ autoSave.isAuthenticated /\ autoSave.encryptionKey # NoKey
  /\ ~IsBlank(autoSave.content)
  /\ LET idToSave == IF autoSave.currentNoteId # NoId
                       THEN autoSave.currentNoteId ELSE now
         note == [id |-> idToSave, content |-> autoSave.content, timestamp |-> now]
         r == saveNote(FileSystem, note, autoSave.encryptionKey, rnd, "none")
     IN  /\ SetFileSystem(r.fs)
         /\ lastOp' = [op |-> "saveNote", id |-> idToSave, ok |-> r.ok]
         /\ saved' = saved
  /\ UNCHANGED << secureStore, now, encryptionKey, isAuthenticated, screen, login,
                  home, editor, masterPw, masterKey, cipher, calls >>

\* a cleanup that saves whatever the closure and the content are
RunAutoSaveAlways(rnd) ==
  /\ NoGesture
  /\ autoSave.pending
  /\ autoSave' = NoSave
  /\ LET idToSave == IF autoSave.currentNoteId # NoId
                       THEN autoSave.currentNoteId ELSE now
         note == [id |-> idToSave, content |-> autoSave.content, timestamp |-> now]
         r == saveNote(FileSystem, note, autoSave.encryptionKey, rnd, "none")
     IN  /\ SetFileSystem(r.fs)
         /\ lastOp' = [op |-> "saveNote", id |-> idToSave, ok |-> r.ok]
         /\ saved' = saved
  /\ UNCHANGED << secureStore, now, encryptionKey, isAuthenticated, screen, login,
                  home, editor, masterPw, masterKey, cipher, calls >>

\* the cleanup of the editor's useFocusEffect
RunAutoSave(rnd) ==
  /\ NoGesture
  /\ autoSave.pending
  /\ autoSave' = NoSave
  /\ IF autoSave.isAuthenticated /\ autoSave.encryptionKey # NoKey
        /\ ~IsBlank(autoSave.content)
       THEN LET idToSave == IF autoSave.currentNoteId # NoId
                              THEN autoSave.currentNoteId ELSE now
                note == [id |-> idToSave, content |-> autoSave.content, timestamp |-> now]
                r == saveNote(FileSystem, note, autoSave.encryptionKey, rnd, "none")
            IN  /\ SetFileSystem(r.fs)
                /\ lastOp' = [op |-> "saveNote", id |-> idToSave, ok |-> r.ok]
                /\ saved' = IF r.ok
                              THEN [saved EXCEPT ![idToSave] =
                                      [state |-> "saved", content |-> note.content,
                                       key |-> autoSave.encryptionKey,
                                       timestamp |-> note.timestamp,
                                       updated |-> /\ saved[idToSave].state = "saved"
                                                   /\ saved[idToSave].content # note.content]]
                              ELSE saved
       ELSE /\ rnd = CHOOSE x \in RandomBytes : TRUE
            /\ UNCHANGED << persistent, lastOp, saved >>
  /\ UNCHANGED << secureStore, now, encryptionKey, isAuthenticated, screen, login,
                  home, editor, masterPw, masterKey, cipher, calls >>

\* the editor's trash icon, confirmed
EditorHandleDelete ==
  /\ Gesture
  /\ screen = "NoteEditor"
  /\ isAuthenticated /\ encryptionKey # NoKey /\ editor.currentNoteId # NoId
  /\ LET r == deleteNote(FileSystem, editor.currentNoteId, "none")
     IN  /\ SetFileSystem(r.fs)
         /\ lastOp' = [op |-> "deleteNote", id |-> editor.currentNoteId, ok |-> r.ok]
         /\ saved' = IF r.ok THEN [saved EXCEPT ![editor.currentNoteId] = Deleted]
                             ELSE saved
  /\ LeaveEditor
  /\ UNCHANGED << secureStore, now, encryptionKey, isAuthenticated, login, masterPw,
                  masterKey, cipher, calls >>

\* the list's trash icon, confirmed
HomeHandleDeleteNote(noteId) ==
  /\ Gesture
  /\ HomeReady
  /\ \E i \in 1..Len(home.notes) : home.notes[i].id = noteId
  /\ LET r == deleteNote(FileSystem, noteId, "none")
     IN  /\ SetFileSystem(r.fs)
         /\ lastOp' = [op |-> "deleteNote", id |-> noteId, ok |-> r.ok]
         /\ saved' = IF r.ok THEN [saved EXCEPT ![noteId] = Deleted] ELSE saved
  /\ home' = [home EXCEPT !.pending = TRUE]
  /\ UNCHANGED << secureStore, now, encryptionKey, isAuthenticated, screen, login,
                  editor, autoSave, masterPw, masterKey, cipher, calls >>

\* Home's "Clear All Data", confirmed: CryptoContext.clearAllCryptoData
HandleClearAllDataF(fault) ==
  /\ Gesture
  /\ HomeReady
  /\ LET r == clearMasterPassword(secureStore, fault)
     IN  /\ secureStore' = r.store
         /\ lastOp' = [op |-> "clearMasterPassword", ok |-> r.ok]
         /\ IF r.ok
              THEN /\ encryptionKey' = NoKey
                   /\ masterPw' = <<>>
                   /\ masterKey' = NoKey
              ELSE UNCHANGED << encryptionKey, masterPw, masterKey >>
  /\ UNCHANGED << notesDir, noteFiles, metadataFile, now, isAuthenticated, screen,
                  login, home, editor, autoSave, saved, cipher, calls >>

HandleClearAllData == HandleClearAllDataF("none")

\* The process ends and the app is started again: only storage survives.
AppRestart ==
  /\ Gesture
  /\ screen # "Login" \/ encryptionKey # NoKey
  /\ ~autoSave.pending
  /\ encryptionKey' = NoKey
  /\ isAuthenticated' = FALSE
  /\ screen' = "Login"
  /\ login' = LoginMounted
  /\ home' = HomeIdle
  /\ editor' = EditorIdle
  /\ autoSave' = NoSave
  /\ lastOp' = [op |-> "restart"]
  /\ UNCHANGED << persistent, now, masterPw, masterKey, saved, cipher, calls >>

\* time passes
Tick ==
  /\ NoGesture
  /\ now < MaxTime
  /\ now' = now + 1
  /\ UNCHANGED << persistent, encryptionKey, isAuthenticated, screen, login, home,
                  editor, autoSave, history, cipher, calls >>

Next ==
  \/ CheckFirstLaunch
  \/ \E password \in Passwords, salt \in SaltValues, rnd \in RandomBytes :
       HandleSetMasterPassword(password, salt, rnd)
  \/ \E password \in Passwords : HandleLogin(password)
  \/ ProviderEffect
  \/ HomeLoadNotes
  \/ HomeRefresh
  \/ HandleCreateNewNote
  \/ \E noteId \in NoteIds : HandleOpenNote(noteId)
  \/ \E content \in Contents : EditorType(content)
  \/ EditorGoBack
  \/ \E rnd \in RandomBytes : RunAutoSave(rnd)
  \/ EditorHandleDelete
  \/ \E noteId \in NoteIds : HomeHandleDeleteNote(noteId)
  \/ HandleClearAllData
  \/ AppRestart
  \/ Tick

Spec == Init /\ [][Next]_vars

\* ------------------------------------------- SecureStore calls that reject
\* The credential flow of LoginScreen and "Clear All Data" where any one
\* SecureStore call of the handler may reject.
CheckFaults == {"none", "getSalt"}
SetFaults == {"none", "storeSalt", "setTest"}
LoginFaults == {"none", "getSalt", "getTest"}
ClearFaults == {"none", "deleteSalt", "deleteTest"}

NextIO ==
  \/ \E fault \in CheckFaults : CheckFirstLaunchF(fault)
  \/ \E password \in Passwords, salt \in SaltValues, rnd \in RandomBytes,
        fault \in SetFaults :
       HandleSetMasterPasswordF(password, password, salt, rnd, fault)
  \/ \E password \in Passwords, fault \in LoginFaults : HandleLoginF(password, fault)
  \/ ProviderEffect
  \/ HomeLoadNotes
  \/ \E fault \in ClearFaults : HandleClearAllDataF(fault)
  \/ AppRestart

SpecIO == Init /\ [][NextIO]_vars

\* ------------------------------------------------- the cipher on its own
\* encryptData twice on one plaintext and key, then decryptData of both
\* results with that key and of the first with another key.
app == << secureStore, notesDir, noteFiles, metadataFile, now, encryptionKey,
          isAuthenticated, screen, login, home, editor, autoSave, lastOp,
          masterPw, masterKey, saved, calls, gestures >>

\* the keys deriveKey returns
DerivedKeys == {deriveKey(password, salt) : password \in Passwords \ {<<>>},
                                             salt \in SaltValues}

\* "", "H", ":", "a:b:c", "é", an unpaired surrogate, and what the editor holds
Plaintexts == Contents \cup {<<>>, <<58>>, <<97, 58, 98, 58, 99>>, <<233>>,
                             <<55296>>, TEST_PLAIN_TEXT}

\* encrypt then decrypt as one expression: a throw of the first is a throw
\* of the whole
decryptOf(blob, key) == IF blob = Thrown THEN Thrown ELSE decryptData(blob, key)

\* the nonce a blob carries
NonceOf(blob) == IF blob = Thrown THEN Thrown ELSE SplitFirst(blob)

CipherInit ==
  /\ AppInit
  /\ calls = NoCalls
  /\ \E data \in Plaintexts, key \in DerivedKeys, other \in DerivedKeys :
       cipher = [phase |-> "start", data |-> data, key |-> key, other |-> other]

EncryptFirst(rnd) ==
  /\ cipher.phase = "start"
  /\ cipher' = [phase |-> "once", data |-> cipher.data, key |-> cipher.key,
                other |-> cipher.other,
                rnd1 |-> rnd, blob1 |-> encryptData(cipher.data, cipher.key, rnd)]
  /\ UNCHANGED app

EncryptSecond(rnd) ==
  /\ cipher.phase = "once"
  /\ cipher' = [phase |-> "twice", data |-> cipher.data, key |-> cipher.key,
                other |-> cipher.other,
                rnd1 |-> cipher.rnd1, blob1 |-> cipher.blob1,
                rnd2 |-> rnd, blob2 |-> encryptData(cipher.data, cipher.key, rnd)]
  /\ UNCHANGED app

DecryptBoth ==
  /\ cipher.phase = "twice"
  /\ cipher' = [phase |-> "decrypted", data |-> cipher.data, key |-> cipher.key,
                other |-> cipher.other,
                rnd1 |-> cipher.rnd1, blob1 |-> cipher.blob1,
                rnd2 |-> cipher.rnd2, blob2 |-> cipher.blob2,
                out1 |-> decryptOf(cipher.blob1, cipher.key),
                out2 |-> decryptOf(cipher.blob2, cipher.key)]
  /\ UNCHANGED app

DecryptOther ==
  /\ cipher.phase = "decrypted"
  /\ cipher' = [phase |-> "other", data |-> cipher.data, key |-> cipher.key,
                other |-> cipher.other,
                rnd1 |-> cipher.rnd1, blob1 |-> cipher.blob1,
                rnd2 |-> cipher.rnd2, blob2 |-> cipher.blob2,
                out1 |-> cipher.out1, out2 |-> cipher.out2,
                outOther |-> decryptOf(cipher.blob1, cipher.other)]
  /\ UNCHANGED app

CipherNext ==
  \/ \E rnd \in RandomBytes : EncryptFirst(rnd)
  \/ \E rnd \in RandomBytes : EncryptSecond(rnd)
  \/ DecryptBoth
  \/ DecryptOther

CipherSpec == CipherInit /\ [][CipherNext]_vars

\* ------------------------------------------------------------- properties
Decrypted == cipher.phase \in {"decrypted", "other"}
Encryptable(data) == data # <<>> /\ WellFormed(data)
ListedIds(fs) == {getAllNoteMetadata(fs)[i].id : i \in 1..Len(getAllNoteMetadata(fs))}

\* C1: a login that starts without a session key (after a restart) and gives
\* the password of setMasterPassword returns the key setMasterPassword
\* returned, and loadNoteContent with it returns exactly the content of every
\* note saved with that key; a login with another password returns null and
\* the session stays without a key.
C1_CrossSessionReadability ==
  (lastOp.op = "verifyMasterPassword" /\ lastOp.fresh) =>
    IF lastOp.password = masterPw
      THEN /\ lastOp.key = masterKey
           /\ lastOp.key # NoKey
           /\ \A id \in NoteIds :
                (saved[id].state = "saved" /\ saved[id].key = masterKey) =>
                  loadNoteContent(FileSystem, id, lastOp.key) = saved[id].content
      ELSE lastOp.key = NoKey /\ encryptionKey = NoKey

C1_Witness ==
  /\ lastOp.op = "verifyMasterPassword" /\ lastOp.fresh
  /\ lastOp.password = masterPw
  /\ lastOp.key = masterKey
  /\ \E id \in NoteIds :
       /\ saved[id].state = "saved" /\ saved[id].key = masterKey
       /\ loadNoteContent(FileSystem, id, lastOp.key) = saved[id].content

\* C2: while a password is set and no SecureStore call rejects,
\* verifyMasterPassword with that password returns the key setMasterPassword
\* returned, which is not null, and with any other password, the empty one
\* included, it returns null without throwing; every login that was made
\* returned exactly that.
C2_VerifyPassword ==
  (secureStore.salt # Null /\ masterPw # <<>>) =>
    /\ masterKey # NoKey /\ masterKey # KeyThrown
    /\ verifyMasterPassword(secureStore, masterPw, "none") = masterKey
    /\ \A q \in Passwords \ {masterPw} :
         verifyMasterPassword(secureStore, q, "none") = NoKey
    /\ lastOp.op = "verifyMasterPassword" =>
         lastOp.key = IF lastOp.password = masterPw THEN masterKey ELSE NoKey

C2_Witness ==
  /\ secureStore.salt # Null /\ masterPw # <<>>
  /\ lastOp.op = "verifyMasterPassword"
  /\ lastOp.password # masterPw
  /\ lastOp.key = NoKey
  /\ verifyMasterPassword(secureStore, masterPw, "none") = masterKey

\* C3: what hasMasterPassword returned is true exactly when a salt is in
\* SecureStore, also when the read of the salt rejects.
C3_HasPasswordIffSalt ==
  lastOp.op = "hasMasterPassword" => (lastOp.result <=> secureStore.salt # Null)

\* C4: a setMasterPassword that starts without a salt and throws leaves
\* SecureStore without a salt, and hasMasterPassword false.
C4_SetPasswordAtomic ==
  (lastOp.op = "setMasterPassword" /\ lastOp.unset /\ lastOp.key = KeyThrown) =>
    /\ secureStore.salt = Null
    /\ ~hasMasterPassword(secureStore, "none")

\* C5: no step other than "Clear All Data" changes a salt that is in
\* SecureStore.
C5_SaltImmutable ==
  [][(secureStore.salt # Null /\ lastOp'.op # "clearMasterPassword")
       => secureStore'.salt = secureStore.salt]_vars

\* C6 as the specification states it: for every plaintext, the empty one
\* included, decryptData(encryptData(P, K), K) is P.
C6_RoundTripEveryPlaintext == Decrypted => cipher.out1 = cipher.data

\* C6: for every plaintext that is not empty and has no unpaired surrogate,
\* and every key, decryptData(encryptData(P, K), K) is P; for the other
\* plaintexts encryptData throws.
C6_RoundTrip ==
  Decrypted =>
    IF Encryptable(cipher.data)
      THEN cipher.blob1 # Thrown /\ cipher.out1 = cipher.data
      ELSE cipher.blob1 = Thrown /\ cipher.out1 = Thrown

C6_Witness ==
  /\ Decrypted
  /\ cipher.data = LongText
  /\ cipher.blob1 # Thrown
  /\ cipher.out1 = LongText

\* C7: decryptData of a blob with a key other than the one that made it
\* returns null.
C7_WrongKeyNull ==
  (cipher.phase = "other" /\ cipher.other # cipher.key /\ cipher.blob1 # Thrown) =>
    cipher.outOther = Null

C9_SaveLoadRoundTrip ==
  \A id \in NoteIds :
    saved[id].state = "saved" =>
      loadNoteContent(FileSystem, id, saved[id].key) = saved[id].content

C9_Witness ==
  \E id \in NoteIds :
    /\ saved[id].state = "saved" /\ saved[id].updated
    /\ saved[id].content = LongText
    /\ HasChar(saved[id].content, 58)
    /\ loadNoteContent(FileSystem, id, saved[id].key) = LongText

\* C10: from a deleteNote of an id that returned until the next saveNote of
\* that id, loadNoteContent of the id returns null with every key and
\* getAllNoteMetadata has no entry of the id.
C10_DeletedIsGone ==
  \A id \in NoteIds :
    saved[id] = Deleted =>
      /\ \A key \in DerivedKeys : loadNoteContent(FileSystem, id, key) = Null
      /\ id \notin ListedIds(FileSystem)

C10_Witness ==
  \E id \in NoteIds :
    /\ saved[id] = Deleted
    /\ lastOp = [op |-> "deleteNote", id |-> id, ok |-> TRUE]
    /\ noteFiles[id] = Null
    /\ id \notin ListedIds(FileSystem)

\* The file system after the step.
FileSystemAfter == [dir |-> notesDir', files |-> noteFiles', meta |-> metadataFile']

\* C11: once the editor's Delete has removed a note and the screen goes back,
\* no later step of the editor (its auto-save on leaving) brings the file or
\* the metadata entry of that note back.
C11_EditorDeleteFinal ==
  [][\A id \in NoteIds :
       (saved[id] = Deleted /\ autoSave.pending /\ autoSave.currentNoteId = id) =>
         /\ noteFiles'[id] = Null
         /\ id \notin ListedIds(FileSystemAfter)]_vars

\* ------------------------------------------- the note repository on its own
\* saveNote, deleteNote and getAllNoteMetadata called with any id and
\* timestamp, where any one FileSystem call of the operation may reject
\* ("readMeta" also stands for a metadata.json that JSON.parse rejects).
RepoIds == 1..MaxNotes
RepoTimestamps == 1..MaxNotes
SaveFaults == {"none", "writeFile", "readMeta", "writeMeta"}
DeleteFaults == {"none", "deleteFile", "readMeta", "writeMeta"}
ListFaults == {"none", "readMeta"}

RepoInit ==
  /\ secureStore = [salt |-> Null, test |-> Null]
  /\ notesDir = FALSE
  /\ noteFiles = [id \in RepoIds |-> Null]
  /\ metadataFile = NoMetadata
  /\ now = 1
  /\ encryptionKey = CHOOSE key \in DerivedKeys : TRUE
  /\ isAuthenticated = TRUE
  /\ screen = "Home"
  /\ login = LoginIdle
  /\ home = HomeIdle
  /\ editor = EditorIdle
  /\ autoSave = NoSave
  /\ lastOp = NoOp
  /\ masterPw = <<>>
  /\ masterKey = NoKey
  /\ saved = [id \in RepoIds |-> NeverSaved]
  /\ cipher = IdleCipher
  /\ calls = NoCalls
  /\ gestures = 0

session == << secureStore, now, encryptionKey, isAuthenticated, screen, login, home,
              editor, autoSave, masterPw, masterKey, saved, cipher, calls >>

RepoOp == gestures < MaxRepoOps /\ gestures' = gestures + 1

RepoSave(id, timestamp, rnd, fault) ==
  /\ RepoOp
  /\ LET note == [id |-> id, content |-> <<72>>, timestamp |-> timestamp]
         r == saveNote(FileSystem, note, encryptionKey, rnd, fault)
     IN  /\ SetFileSystem(r.fs)
         /\ lastOp' = [op |-> "saveNote", id |-> id, ok |-> r.ok]
  /\ UNCHANGED session

RepoDelete(id, fault) ==
  /\ RepoOp
  /\ LET r == deleteNote(FileSystem, id, fault)
     IN  /\ SetFileSystem(r.fs)
         /\ lastOp' = [op |-> "deleteNote", id |-> id, ok |-> r.ok,
                       absent |-> noteFiles[id] = Null /\ id \notin ListedIds(FileSystem)]
  /\ UNCHANGED session

RepoList(fault) ==
  /\ RepoOp
  /\ notesDir' = TRUE
  /\ lastOp' = [op |-> "getAllNoteMetadata", fault |-> fault,
                result |-> getAllNoteMetadataF(FileSystem, fault)]
  /\ UNCHANGED << noteFiles, metadataFile >>
  /\ UNCHANGED session

RepoNext ==
  \/ \E id \in RepoIds, timestamp \in RepoTimestamps, fault \in SaveFaults :
       RepoSave(id, timestamp, CHOOSE rnd \in RandomBytes : TRUE, fault)
  \/ \E id \in RepoIds, fault \in DeleteFaults : RepoDelete(id, fault)
  \/ \E fault \in ListFaults : RepoList(fault)

RepoSpec == RepoInit /\ [][RepoNext]_vars

\* the ids metadata.json holds
IndexIds == {metadataFile.entries[i].id : i \in 1..Len(metadataFile.entries)}

\* C12: between operations, also after a saveNote or deleteNote that failed
\* at one of its FileSystem calls, every id in metadata.json has its
\* .encrypted file, and a list that getAllNoteMetadata read holds only ids
\* with a file.
C12_IndexSubsetOfBlobs ==
  /\ \A id \in IndexIds : noteFiles[id] # Null
  /\ (lastOp.op = "getAllNoteMetadata" /\ lastOp.fault = "none") =>
       \A i \in 1..Len(lastOp.result) : noteFiles[lastOp.result[i].id] # Null

\* the places of an id in metadata.json
EntriesOf(id) == {i \in 1..Len(metadataFile.entries) : metadataFile.entries[i].id = id}

\* C13: as long as every saveNote and deleteNote returns, metadata.json has
\* exactly one entry for each id whose last operation is a saveNote, with the
\* timestamp of that saveNote, and no entry for any other id.
C13_OneEntryPerNote ==
  /\ \A id \in NoteIds :
       IF saved[id].state = "saved"
         THEN /\ Cardinality(EntriesOf(id)) = 1
              /\ \A i \in EntriesOf(id) :
                   metadataFile.entries[i].timestamp = saved[id].timestamp
         ELSE EntriesOf(id) = {}
  /\ IndexIds \subseteq NoteIds

C13_Witness ==
  /\ saved[1].state = "saved" /\ saved[1].updated /\ saved[1].timestamp = 2
  /\ metadataFile.entries = <<[id |-> 1, timestamp |-> 2]>>

C15_ClearDeletesNotes ==
  lastOp = [op |-> "clearMasterPassword", ok |-> TRUE] =>
    /\ \A id \in NoteIds : noteFiles[id] = Null
    /\ IndexIds = {}

\* C16: a note written under the key of an erased password is unreadable by
\* every key obtained afterwards: loadNoteContent returns null for it.
C16_EraseInvalidatesOldNotes ==
  \A id \in NoteIds :
    ( /\ saved[id].state = "saved"
      /\ encryptionKey # NoKey
      /\ saved[id].key # encryptionKey ) =>
        loadNoteContent(FileSystem, id, encryptionKey) = Null

\* how often an entry occurs in a list of metadata
CountOf(metadata, e) == Cardinality({i \in 1..Len(metadata) : metadata[i] = e})

\* C17: what getAllNoteMetadata returned is ordered by timestamp, most recent
\* first, and holds exactly the entries of metadata.json; it is the empty
\* list, returned and not thrown, when metadata.json is missing or cannot be
\* read as JSON.  No key takes part in the call.
C17_ListAllSorted ==
  lastOp.op = "getAllNoteMetadata" =>
    IF lastOp.fault = "none" /\ metadataFile.exists
      THEN /\ \A i, j \in 1..Len(lastOp.result) :
                i < j => lastOp.result[i].timestamp >= lastOp.result[j].timestamp
           /\ Len(lastOp.result) = Len(metadataFile.entries)
           /\ \A i \in 1..Len(metadataFile.entries) :
                CountOf(lastOp.result, metadataFile.entries[i])
                  = CountOf(metadataFile.entries, metadataFile.entries[i])
      ELSE lastOp.result = <<>>

C17_Witness ==
  /\ lastOp.op = "getAllNoteMetadata"
  /\ lastOp.fault = "none"
  /\ metadataFile.entries = << [id |-> 1, timestamp |-> 1],
                               [id |-> 2, timestamp |-> 2],
                               [id |-> 3, timestamp |-> 3] >>
  /\ lastOp.result = << [id |-> 3, timestamp |-> 3],
                        [id |-> 2, timestamp |-> 2],
                        [id |-> 1, timestamp |-> 1] >>

\* what encryptData can return for a content under a key
BlobsOf(content, key) == {encryptData(content, key, rnd) : rnd \in RandomBytes}

\* what encryptData can return for the test text
TestBlobs == {encryptData(TEST_PLAIN_TEXT, key, rnd) : key \in DerivedKeys, rnd \in RandomBytes}

\* what storeSalt can write
StoredSalts == {Base64Stringify(salt) : salt \in SaltValues}

\* C18: everything in the notes directory and in SecureStore is an encrypted
\* blob, the encoded salt, or a metadata entry of an id and a timestamp; a
\* note file is what encryptData returned for the content under the session
\* key, never the content itself, and decrypts to the content under that key.
C18_OnlyCiphertextPersisted ==
  /\ \A id \in NoteIds :
       noteFiles[id] # Null =>
         /\ saved[id].state = "saved"
         /\ noteFiles[id] \in BlobsOf(saved[id].content, saved[id].key)
         /\ noteFiles[id] # saved[id].content
         /\ noteFiles[id] \notin Contents
         /\ decryptData(noteFiles[id], saved[id].key) = saved[id].content
  /\ \A i \in 1..Len(metadataFile.entries) :
       /\ DOMAIN metadataFile.entries[i] = {"id", "timestamp"}
       /\ metadataFile.entries[i].id \in NoteIds
       /\ metadataFile.entries[i].timestamp \in Nat
  /\ secureStore.salt # Null => secureStore.salt \in StoredSalts
  /\ secureStore.test # Null => secureStore.test \in TestBlobs

C18_Witness ==
  /\ lastOp.op = "saveNote" /\ lastOp.ok
  /\ saved[lastOp.id].state = "saved"
  /\ saved[lastOp.id].content = LongText
  /\ noteFiles[lastOp.id] \in BlobsOf(LongText, encryptionKey)
  /\ secureStore.test \in TestBlobs
  /\ secureStore.salt \in StoredSalts

\* C19: from every state of the notes directory, deleteNote(id) with no
\* FileSystem call failing returns without throwing, leaves the files and
\* the metadata entries of the other ids as they were, changes no file and no
\* entry at all when id has neither, and a second deleteNote(id) changes
\* nothing more.
C19_DeleteIdempotent ==
  \A id \in RepoIds :
    LET once == deleteNote(FileSystem, id, "none")
        twice == deleteNote(once.fs, id, "none")
    IN  /\ once.ok
        /\ twice.ok
        /\ twice.fs = once.fs
        /\ once.fs.files[id] = Null
        /\ \A other \in RepoIds \ {id} : once.fs.files[other] = noteFiles[other]
        /\ once.fs.meta.entries = SelectSeqId(metadataFile.entries, id)
        /\ (noteFiles[id] = Null /\ id \notin IndexIds) =>
             /\ once.fs.files = noteFiles
             /\ once.fs.meta.entries = metadataFile.entries

C19_Witness ==
  /\ lastOp.op = "deleteNote"
  /\ lastOp.absent
  /\ lastOp.ok
  /\ \E other \in RepoIds : noteFiles[other] # Null /\ other \in IndexIds

\* C20: once the editor's auto-save has written a note and Home has finished
\* the load that its focus started, the note has its file and its metadata
\* entry, and the list Home shows holds the note with the timestamp of that
\* save.
C20_AutoSaveListed ==
  (lastOp.op = "saveNote" /\ lastOp.ok /\ screen = "Home" /\ ~autoSave.pending
     /\ ~home.pending) =>
    /\ noteFiles[lastOp.id] # Null
    /\ lastOp.id \in IndexIds
    /\ \E i \in 1..Len(home.notes) :
         home.notes[i] = [id |-> lastOp.id, timestamp |-> saved[lastOp.id].timestamp]

\* The effects and cleanups React runs on its own are not postponed for
\* ever; nothing makes the user press anything.  The last conjunct is weak
\* fairness of RunAutoSave written out: the cleanup is enabled exactly while
\* autoSave.pending, and running it ends that.
LiveSpec ==
  /\ Spec
  /\ WF_vars(CheckFirstLaunch)
  /\ WF_vars(ProviderEffect)
  /\ WF_vars(HomeLoadNotes)
  /\ []<>(~autoSave.pending)

\* C21: a non-blank content typed into the editor of an authenticated user
\* is eventually in the note's file while the editor is still open, unless
\* the user changes it again or leaves the editor first.
C21_SavedAsTyped ==
  \A content \in Contents :
    ( /\ screen = "NoteEditor"
      /\ isAuthenticated /\ encryptionKey # NoKey
      /\ editor.content = content
      /\ ~IsBlank(content) )
    ~> ( \/ screen # "NoteEditor"
         \/ editor.content # content
         \/ \E id \in NoteIds :
              /\ editor.currentNoteId \in {NoId, id}
              /\ noteFiles[id] # Null
              /\ decryptData(noteFiles[id], encryptionKey) = content )

\* ------------------------------------------------------------ the console
\* What generateSalt and deriveKey hand to console.log, one value per
\* argument that is computed from the call's data.
generateSaltLog(salt) == << HexStringify(salt) >>

deriveKeyLog(password, salt) == << <<Len(password)>>, salt, <<deriveKey(password, salt)>> >>

setMasterPasswordLog(password, salt) ==
  IF password = <<>> THEN <<>>
  ELSE generateSaltLog(salt) \o deriveKeyLog(password, salt)

verifyMasterPasswordLog(store, password) ==
  IF password = <<>> THEN <<>>
  ELSE LET salt == getStoredSalt(store, "none")
       IN  IF salt = Null THEN <<>> ELSE deriveKeyLog(password, salt)

\* ------------------------------------------- the password store on its own
\* setMasterPassword and verifyMasterPassword called on every SecureStore
\* content: no salt or a stored salt, with no test data, the test data of
\* some password, or test data that is damaged.
MaxStoreOps == 2

\* test data without the delimiter, cut short, with a damaged IV, and the
\* blob of another text
CorruptProbes ==
  {<<97, 98, 99>>}
    \cup {Slice(blob, 1, Len(blob) - 4) : blob \in TestBlobs}
    \cup {[blob EXCEPT ![1] = 102] : blob \in TestBlobs}
    \cup {encryptData(<<72>>, key, rnd) : key \in DerivedKeys, rnd \in RandomBytes}

StoreInit ==
  /\ secureStore \in [salt : {Null} \cup StoredSalts,
                      test : {Null} \cup TestBlobs \cup CorruptProbes]
  /\ notesDir = FALSE
  /\ noteFiles = [id \in NoteIds |-> Null]
  /\ metadataFile = NoMetadata
  /\ now = 1
  /\ encryptionKey = NoKey
  /\ isAuthenticated = FALSE
  /\ screen = "Login"
  /\ login = LoginIdle
  /\ home = HomeIdle
  /\ editor = EditorIdle
  /\ autoSave = NoSave
  /\ lastOp = NoOp
  /\ masterPw = <<>>
  /\ masterKey = NoKey
  /\ saved = [id \in NoteIds |-> NeverSaved]
  /\ cipher = IdleCipher
  /\ calls = NoCalls
  /\ gestures = 0

StoreOp ==
  /\ gestures < MaxStoreOps
  /\ gestures' = gestures + 1
  /\ UNCHANGED << notesDir, noteFiles, metadataFile, now, encryptionKey,
                  isAuthenticated, screen, login, home, editor, autoSave, masterPw,
                  masterKey, saved, cipher, calls >>

StoreSetMasterPassword(password, salt, rnd) ==
  /\ StoreOp
  /\ LET r == setMasterPassword(secureStore, password, salt, rnd, "none")
     IN  /\ secureStore' = r.store
         /\ lastOp' = [op |-> "setMasterPassword", password |-> password,
                       result |-> r.key, before |-> secureStore,
                       log |-> setMasterPasswordLog(password, salt)]

StoreVerifyMasterPassword(password) ==
  /\ StoreOp
  /\ secureStore' = secureStore
  /\ lastOp' = [op |-> "verifyMasterPassword", password |-> password,
                result |-> verifyMasterPassword(secureStore, password, "none"),
                before |-> secureStore,
                log |-> verifyMasterPasswordLog(secureStore, password)]

StoreNext ==
  \/ \E password \in Passwords, salt \in SaltValues, rnd \in RandomBytes :
       StoreSetMasterPassword(password, salt, rnd)
  \/ \E password \in Passwords : StoreVerifyMasterPassword(password)

StoreSpec == StoreInit /\ [][StoreNext]_vars

C23_StorageErrorOutcomes ==
  \A id \in NoteIds :
    /\ \A content \in Contents, rnd \in RandomBytes :
         LET r == saveNote(FileSystem, [id |-> id, content |-> content, timestamp |-> now],
                           NoKey, rnd, "none")
         IN  ~r.ok /\ r.fs = FileSystem
    /\ noteFiles[id] = Null =>
         \A key \in DerivedKeys : loadNoteContent(FileSystem, id, key) = Null
    /\ saved[id].state = "saved" =>
         /\ LET cut == Slice(noteFiles[id], 1, Len(noteFiles[id]) - 4)
            IN  loadNoteContent([FileSystem EXCEPT !.files[id] = cut], id, saved[id].key) = Null
         /\ \A key \in DerivedKeys \ {saved[id].key} :
              loadNoteContent(FileSystem, id, key) = Null

\* C24: nothing that setMasterPassword or verifyMasterPassword hands to
\* console.log is the salt, as words, in hex or in Base64.
C24_SaltNotLogged ==
  (lastOp.op \in {"setMasterPassword", "verifyMasterPassword"}
     /\ getStoredSalt(secureStore, "none") # Null) =>
    LET salt == getStoredSalt(secureStore, "none")
    IN  \A i \in 1..Len(lastOp.log) :
          lastOp.log[i] \notin {salt, HexStringify(salt), Base64Stringify(salt)}

\* C25: decryptData returns null for every malformed form of a blob that
\* encryptData returned: the blob without its ':', without its nonce,
\* without its ciphertext, with the last byte of the nonce missing, and
\* with one more ':' segment.
C25_MalformedRejected ==
  (Decrypted /\ cipher.blob1 # Thrown) =>
    LET blob == cipher.blob1
        nonce == SplitFirst(blob)
        ciphertext == SplitSecond(blob)
    IN  \A text \in { nonce \o ciphertext,
                      <<58>> \o ciphertext,
                      nonce \o <<58>>,
                      Slice(nonce, 1, Len(nonce) - 2) \o <<58>> \o ciphertext,
                      blob \o <<58, 122>> } :
          decryptData(text, cipher.key) = Null

\* C26: the nonce in front of the ':' is IV_SIZE bytes in hex, and the IV
\* the cipher uses is the IV_SIZE bytes that getRandomBytes returned.
C26_NonceLength ==
  (Decrypted /\ cipher.blob1 # Thrown) =>
    /\ Len(NonceOf(cipher.blob1)) = 2 * IV_SIZE
    /\ IvBlock(HexParse(NonceOf(cipher.blob1))) = cipher.rnd1

\* C27: a saveNote step, also one whose read or parse of metadata.json
\* fails, leaves the file and the metadata entries of every other id as they
\* were.
C27_SaveFrame ==
  [][(lastOp'.op = "saveNote" /\ gestures' # gestures) =>
       /\ \A other \in RepoIds \ {lastOp'.id} : noteFiles'[other] = noteFiles[other]
       /\ SelectSeqId(metadataFile'.entries, lastOp'.id)
            = SelectSeqId(metadataFile.entries, lastOp'.id)]_vars

\* ------------------------------------- noteStorage calls that overlap in time
\* saveNote and deleteNote are async functions; a second call can start
\* while the first waits at one of its awaits (the editor's cleanup is not
\* awaited by anybody).  One step per awaited FileSystem call; metadata is
\* the call's local variable.  A call on an id starts only when no call on
\* the same id is in flight.
MaxCalls == 3

RaceInit ==
  /\ secureStore = [salt |-> Null, test |-> Null]
  /\ notesDir = FALSE
  /\ noteFiles = [id \in RepoIds |-> Null]
  /\ metadataFile = NoMetadata
  /\ now = 1
  /\ encryptionKey = CHOOSE key \in DerivedKeys : TRUE
  /\ isAuthenticated = TRUE
  /\ screen = "Home"
  /\ login = LoginIdle
  /\ home = HomeIdle
  /\ editor = EditorIdle
  /\ autoSave = NoSave
  /\ lastOp = NoOp
  /\ masterPw = <<>>
  /\ masterKey = NoKey
  /\ saved = [id \in RepoIds |-> NeverSaved]
  /\ cipher = IdleCipher
  /\ calls = NoCalls
  /\ gestures = 0

bystanders == << secureStore, now, encryptionKey, isAuthenticated, screen, login,
                 home, editor, autoSave, masterPw, masterKey, cipher >>

InFlight(id) == \E slot \in Slots : calls[slot].pc # "idle" /\ calls[slot].id = id

StartSaveNote(slot, id, timestamp) ==
  /\ gestures < MaxCalls
  /\ calls[slot].pc = "idle" /\ ~InFlight(id)
  /\ encryptionKey # NoKey
  /\ gestures' = gestures + 1
  /\ calls' = [calls EXCEPT ![slot] =
                 [pc |-> "ensureDir", op |-> "saveNote", id |-> id,
                  timestamp |-> timestamp, metadata |-> <<>>]]
  /\ UNCHANGED << notesDir, noteFiles, metadataFile, lastOp, saved >>
  /\ UNCHANGED bystanders

StartDeleteNote(slot, id) ==
  /\ gestures < MaxCalls
  /\ calls[slot].pc = "idle" /\ ~InFlight(id)
  /\ gestures' = gestures + 1
  /\ calls' = [calls EXCEPT ![slot] =
                 [pc |-> "ensureDir", op |-> "deleteNote", id |-> id,
                  timestamp |-> 0, metadata |-> <<>>]]
  /\ UNCHANGED << notesDir, noteFiles, metadataFile, lastOp, saved >>
  /\ UNCHANGED bystanders

\* await ensureDirExists()
CallEnsureDir(slot) ==
  /\ calls[slot].pc = "ensureDir"
  /\ notesDir' = TRUE
  /\ calls' = [calls EXCEPT ![slot].pc = "file"]
  /\ UNCHANGED << noteFiles, metadataFile, lastOp, saved, gestures >>
  /\ UNCHANGED bystanders

\* await writeAsStringAsync(filePath, encryptedContent), or getInfoAsync
\* and deleteAsync(filePath)
CallFile(slot, rnd) ==
  /\ calls[slot].pc = "file"
  /\ noteFiles' = [noteFiles EXCEPT ![calls[slot].id] =
                     IF calls[slot].op = "saveNote"
                       THEN encryptData(<<72>>, encryptionKey, rnd)
                       ELSE Null]
  /\ calls' = [calls EXCEPT ![slot].pc = "readMeta"]
  /\ UNCHANGED << notesDir, metadataFile, lastOp, saved, gestures >>
  /\ UNCHANGED bystanders

\* await readAsStringAsync(METADATA_FILE) and JSON.parse, [] in the catch
CallReadMeta(slot) ==
  /\ calls[slot].pc = "readMeta"
  /\ calls' = [calls EXCEPT ![slot].pc = "writeMeta",
                            ![slot].metadata = ReadMetadataOrEmpty(FileSystem, "none")]
  /\ UNCHANGED << notesDir, noteFiles, metadataFile, lastOp, saved, gestures >>
  /\ UNCHANGED bystanders

\* the change of the local list and await writeAsStringAsync(METADATA_FILE)
CallWriteMeta(slot) ==
  /\ calls[slot].pc = "writeMeta"
  /\ LET call == calls[slot]
         entry == [id |-> call.id, timestamp |-> call.timestamp]
     IN  /\ metadataFile' = MetadataOf(IF call.op = "saveNote"
                                         THEN Upsert(call.metadata, entry)
                                         ELSE SelectSeqId(call.metadata, call.id))
         /\ lastOp' = [op |-> call.op, id |-> call.id, ok |-> TRUE]
         /\ saved' = [saved EXCEPT ![call.id] =
                        IF call.op = "saveNote"
                          THEN [state |-> "saved", content |-> <<72>>,
                                key |-> encryptionKey, timestamp |-> call.timestamp,
                                updated |-> FALSE]
                          ELSE Deleted]
  /\ calls' = [calls EXCEPT ![slot] = [pc |-> "idle"]]
  /\ UNCHANGED << notesDir, noteFiles, gestures >>
  /\ UNCHANGED bystanders

RaceNext ==
  \/ \E slot \in Slots, id \in RepoIds, timestamp \in RepoTimestamps :
       StartSaveNote(slot, id, timestamp)
  \/ \E slot \in Slots, id \in RepoIds : StartDeleteNote(slot, id)
  \/ \E slot \in Slots : CallEnsureDir(slot)
  \/ \E slot \in Slots : CallFile(slot, CHOOSE rnd \in RandomBytes : TRUE)
  \/ \E slot \in Slots : CallReadMeta(slot)
  \/ \E slot \in Slots : CallWriteMeta(slot)

RaceSpec == RaceInit /\ [][RaceNext]_vars

\* C28: when no call is in flight, metadata.json has an entry for every id
\* whose last completed call is a saveNote and none for an id whose last
\* completed call is a deleteNote.
C28_NoLostIndexUpdate ==
  (\A slot \in Slots : calls[slot].pc = "idle") =>
    \A id \in RepoIds :
      /\ saved[id].state = "saved" => id \in IndexIds
      /\ saved[id] = Deleted => id \notin IndexIds

\* C29: a login attempt leaves SecureStore, every note file and
\* metadata.json as they were, whatever the password; when
\* verifyMasterPassword returned null, the session key is still null and the
\* Login screen is still shown.
C29_VerifyFrame ==
  [][(lastOp'.op = "verifyMasterPassword" /\ gestures' # gestures) =>
       /\ secureStore' = secureStore
       /\ noteFiles' = noteFiles
       /\ metadataFile' = metadataFile
       /\ lastOp'.key = NoKey =>
            /\ encryptionKey' = NoKey
            /\ screen' = "Login"]_vars

\* C30: whenever the provider holds a key, SecureStore holds a salt and test
\* data, and the key decrypts the test data to the test text; also after a
\* "Clear All Data" whose second deleteItemAsync rejected.
C30_SessionKeyValid ==
  encryptionKey # NoKey =>
    /\ secureStore.salt # Null
    /\ secureStore.test # Null
    /\ decryptData(secureStore.test, encryptionKey) = TEST_PLAIN_TEXT

\* C31: the provider's effect leaves isAuthenticated true exactly when a key
\* is held, and Home never replaces itself by Login while the provider
\* holds a key.
C31_AuthTracksKey ==
  [][ /\ isAuthenticated' # isAuthenticated =>
           isAuthenticated' = (encryptionKey' # NoKey)
      /\ (screen = "Home" /\ screen' = "Login") => encryptionKey' = NoKey ]_vars

\* ----------------------------------------------- the editor's cleanup alone
\* The cleanup of useFocusEffect run over any closure (isAuthenticated,
\* encryptionKey, currentNoteId) and any contentRef.current, on an empty
\* notes directory and on one that holds note 1.
CleanupInit ==
  LET key == CHOOSE k \in DerivedKeys : TRUE
      first == [id |-> 1, content |-> <<72>>, timestamp |-> 1]
      r == saveNote([dir |-> FALSE, files |-> [id \in NoteIds |-> Null],
                     meta |-> NoMetadata],
                    first, key, CHOOSE rnd \in RandomBytes : TRUE, "none")
  IN  /\ secureStore = [salt |-> Null, test |-> Null]
      /\ \/ /\ notesDir = FALSE
            /\ noteFiles = [id \in NoteIds |-> Null]
            /\ metadataFile = NoMetadata
            /\ saved = [id \in NoteIds |-> NeverSaved]
         \/ /\ notesDir = r.fs.dir
            /\ noteFiles = r.fs.files
            /\ metadataFile = r.fs.meta
            /\ saved = [id \in NoteIds |->
                          IF id = 1
                            THEN [state |-> "saved", content |-> first.content,
                                  key |-> key, timestamp |-> first.timestamp,
                                  updated |-> FALSE]
                            ELSE NeverSaved]
      /\ now = 1
      /\ isAuthenticated \in BOOLEAN
      /\ encryptionKey \in {NoKey, key}
      /\ screen = "Home"
      /\ login = LoginIdle
      /\ home = HomeIdle
      /\ editor = EditorIdle
      /\ \E currentNoteId \in {NoId} \cup NoteIds, content \in {<<>>} \cup Contents :
           autoSave = [pending |-> TRUE, isAuthenticated |-> isAuthenticated,
                       encryptionKey |-> encryptionKey,
                       currentNoteId |-> currentNoteId, content |-> content]
      /\ lastOp = NoOp
      /\ masterPw = <<>>
      /\ masterKey = NoKey
      /\ cipher = IdleCipher
      /\ calls = NoCalls
      /\ gestures = 0

CleanupSpec ==
  CleanupInit /\ [][Tick \/ \E rnd \in RandomBytes : RunAutoSave(rnd)]_vars

\* C32: the editor's cleanup with blank content, or in a closure that is not
\* authenticated, leaves the notes directory, every note file and
\* metadata.json as they were: an existing note keeps its blob and its
\* timestamp, and no note is created.
C32_BlankLeaveWritesNothing ==
  [][ ( /\ autoSave.pending /\ ~autoSave'.pending
        /\ IsBlank(autoSave.content) \/ ~autoSave.isAuthenticated )
      => /\ notesDir' = notesDir
         /\ noteFiles' = noteFiles
         /\ metadataFile' = metadataFile ]_vars

\* the cleanup has run without calling saveNote while note 1 is stored
C32_Witness ==
  /\ ~autoSave.pending
  /\ lastOp = NoOp
  /\ noteFiles[1] # Null
  /\ saved[1].state = "saved"
  /\ decryptData(noteFiles[1], saved[1].key) = saved[1].content
  /\ EntriesOf(1) # {}

\* C33: one stay in the editor issues one cleanup, and one cleanup adds at
\* most one entry to metadata.json and writes at most one note file: a
\* cleanup becomes due only in the step that leaves the editor, and the
\* index grows only in the step that runs a due cleanup and ends it, by one
\* entry.
C33_OneNotePerSession ==
  [][ /\ (autoSave'.pending /\ ~autoSave.pending) =>
           (screen = "NoteEditor" /\ screen' = "Home" /\ editor' = EditorIdle)
      /\ (autoSave.pending /\ autoSave'.pending) => autoSave' = autoSave
      /\ Len(metadataFile'.entries) > Len(metadataFile.entries) =>
           /\ autoSave.pending /\ ~autoSave'.pending
           /\ Len(metadataFile'.entries) = Len(metadataFile.entries) + 1
           /\ Cardinality({id \in NoteIds : noteFiles'[id] # noteFiles[id]}) = 1
    ]_vars

\* two stays in the editor for new notes have left two notes
C33_Witness ==
  /\ screen = "Home" /\ ~autoSave.pending
  /\ lastOp.op = "saveNote" /\ lastOp.ok
  /\ Len(metadataFile.entries) = 2
  /\ \A id \in NoteIds : noteFiles[id] # Null

====
